---------------------------- MODULE Spec2Model ----------------------------
(***************************************************************************)
(* A model of go/examples/atomic_examples.go: the lock-free primitives     *)
(* built on sync/atomic (AtomicCounter, AtomicConfig, AtomicFlag,          *)
(* ReferenceCounter, SpinLock, Metrics, Worker, SafeMap).  Every           *)
(* sync/atomic or sync.Map call is one step of the calling                 *)
(* goroutine; whatever a method does between two atomic calls is a         *)
(* separate step, so that every interleaving the Go scheduler can produce  *)
(* is a behaviour of the model.                                            *)
(*                                                                         *)
(* Each primitive is an independent object.  Init constructs one instance  *)
(* of each; SpecXxx lets the goroutines of one primitive run while the     *)
(* others stay as constructed, Spec lets all of them run.                  *)
(***************************************************************************)
EXTENDS Integers, Sequences, FiniteSets, TLC

(***************************************************************************)
(* Bounds of the model (not program constants).                            *)
(***************************************************************************)
\* goroutines contending for the SpinLock, and Lock/Unlock rounds of each
NumLockers == 3
Iterations == 2
\* TryLock calls made in all
MaxTries == 4
\* Unlock calls made by goroutines that do not hold the lock
MaxRogue == 1
\* goroutines calling AtomicCounter methods, and calls each of them makes
NumCounters == 3
CounterCalls == 2
\* goroutines calling AtomicFlag.Toggle, and calls each of them makes
NumTogglers == 3
ToggleCalls == 2
\* Set, Clear and Toggle calls made in all when the three are mixed
MaxFlagCalls == 4
\* goroutines sharing the ReferenceCounter, and calls each of them makes
NumHolders == 3
RefCalls == 2
\* goroutines calling Worker methods; Start, Stop and Submit calls made in
\* all
NumCallers == 2
MaxStarts == 2
MaxStops == 2
MaxSubmits == 2
\* goroutines calling SafeMap methods, Set and Delete calls they make in
\* all, keys they use
NumMappers == 2
MapCalls == 3
NumKeys == 2
\* goroutines calling Metrics methods, Record and Reset calls they make in
\* all, largest argument of RecordBytes
NumMeters == 2
MetricCalls == 4
MaxBytes == 2
\* goroutines calling AtomicConfig methods, Update and Get calls they make
\* in all
NumConfigurers == 2
ConfigCalls == 3

\* NewWorker: make(chan int, 100)
QueueCap == 100

Lockers == 1..NumLockers
CounterProcs == 1..NumCounters
Togglers == 1..NumTogglers
Holders == 1..NumHolders
Callers == 1..NumCallers
Mappers == 1..NumMappers
Keys == 1..NumKeys
Meters == 1..NumMeters
Configurers == 1..NumConfigurers

VARIABLES
    \* SpinLock.state, and the harness around it: a plain (non-atomic) shared
    \* counter touched only inside the critical section; per goroutine the
    \* TryLock calls it has made and the result of the last one; Unlock calls
    \* made by goroutines that did not hold the lock
    state, shared, slPc, slTmp, slIter, slTries, slOk, slRogue,
    \* AtomicCounter.value; per goroutine: calls made, last value returned;
    \* completed Increment and Decrement calls; per goroutine the arguments
    \* and the result of its last CompareAndSet and the CompareAndSet calls it
    \* has made; CompareAndSet calls that returned true
    value, acCalls, acRet, nInc, nDec, acOld, acNew, acOk, acCas, nCasOk,
    \* AtomicFlag.flag; per goroutine: position in Toggle, its local `old`,
    \* last value returned, calls started; completed Toggle calls; per
    \* goroutine in Toggle, whether another call has changed the flag since
    \* its load
    flag, tgPc, tgOld, tgRet, tgCalls, nToggle, tgStale,
    \* ReferenceCounter.refs; whether onZero is non-nil; invocations of onZero;
    \* per goroutine: position in Release, calls made; Acquire calls done,
    \* Release decrements done, decrements that returned 0
    refs, hasOnZero, called, rcPc, rcCalls, nAcq, nRel, nZero,
    \* Worker.running, .processed, .workQueue (the buffered items, oldest
    \* first), .stopSignal (closed or not); whether the program has died of a
    \* runtime panic; the run() goroutines spawned so far, each with its
    \* position; per caller: position in Start/Stop/Submit and the item it
    \* submits; calls made to Start, Stop, Submit; Submit calls that found
    \* the worker running; items that Submit calls have put in the queue
    running, processed, workQueue, stopSignal, panicked, tasks, wkPc, wkItem,
    startCalls, stopCalls, submitCalls, submitted, accepted,
    \* SafeMap.m (per key its value, or Absent), .size; per goroutine: position
    \* in Set/Delete, the key and value of its call, Set's local `exists`;
    \* calls made; per key the value of the last Set call begun (Absent after
    \* a Delete); Set calls that found their key absent, Delete calls that
    \* found theirs present; Delete calls made
    m, size, smPc, smKey, smVal, smExists, smCalls, smLast, nAbsent, nLoaded, nDel,
    \* Metrics.requests, .errors, .totalBytes; per goroutine: position in
    \* GetSnapshot/Reset, GetSnapshot's results; Record and Reset calls made;
    \* <<requests, errors, bytes>> recorded since the last Reset began (or
    \* since creation) while no Reset was in progress, and while one was;
    \* Reset calls made
    requests, errors, totalBytes, mtPc, snap, mtCalls, recAfter, recRaced, nResets,
    \* AtomicConfig.config (the Config held by the atomic.Value, or NoConfig);
    \* per goroutine: the argument of its Update when that was its last call,
    \* the result of its last Get; the arguments of all Update calls; calls
    \* made; whether a Get has panicked; the arguments of the Update calls in
    \* the order they took effect; per goroutine, for each Get it has made in
    \* turn, <<the number of Updates in effect in what it returned, the number
    \* of Update calls that had returned when it began>>
    config, cfArg, cfGot, cfStored, cfCalls, cfFault, cfLog, cfReads

spinVars == <<state, shared, slPc, slTmp, slIter, slTries, slOk, slRogue>>
counterVars == <<value, acCalls, acRet, nInc, nDec, acOld, acNew, acOk, acCas, nCasOk>>
flagVars == <<flag, tgPc, tgOld, tgRet, tgCalls, nToggle, tgStale>>
refVars == <<refs, hasOnZero, called, rcPc, rcCalls, nAcq, nRel, nZero>>
workerVars == <<running, processed, workQueue, stopSignal, panicked, tasks,
                wkPc, wkItem, startCalls, stopCalls, submitCalls, submitted, accepted>>
mapVars == <<m, size, smPc, smKey, smVal, smExists, smCalls, smLast, nAbsent, nLoaded,
             nDel>>
metricVars == <<requests, errors, totalBytes, mtPc, snap, mtCalls, recAfter, recRaced, nResets>>
configVars == <<config, cfArg, cfGot, cfStored, cfCalls, cfFault, cfLog, cfReads>>
vars == <<spinVars, counterVars, flagVars, refVars, workerVars, mapVars, metricVars,
          configVars>>

\* What the methods of one primitive leave alone: the other objects.
SpinFrame == UNCHANGED <<counterVars, flagVars, refVars, workerVars, mapVars, metricVars, configVars>>
CounterFrame == UNCHANGED <<spinVars, flagVars, refVars, workerVars, mapVars, metricVars, configVars>>
FlagFrame == UNCHANGED <<spinVars, counterVars, refVars, workerVars, mapVars, metricVars, configVars>>
RefFrame == UNCHANGED <<spinVars, counterVars, flagVars, workerVars, mapVars, metricVars, configVars>>
WorkerFrame == UNCHANGED <<spinVars, counterVars, flagVars, refVars, mapVars, metricVars, configVars>>
ConfigFrame == UNCHANGED <<spinVars, counterVars, flagVars, refVars, workerVars, mapVars, metricVars>>
MetricFrame == UNCHANGED <<spinVars, counterVars, flagVars, refVars, workerVars, mapVars, configVars>>
MapFrame == UNCHANGED <<spinVars, counterVars, flagVars, refVars, workerVars, metricVars, configVars>>

(***************************************************************************)
(* sync/atomic.CompareAndSwapInt32(addr, old, new) on a location holding   *)
(* cur: whether the swap took effect, and the value the location holds     *)
(* afterwards.                                                             *)
(***************************************************************************)
CasOk(cur, old, new) == cur = old
CasVal(cur, old, new) == IF cur = old THEN new ELSE cur

(***************************************************************************)
(* SpinLock                                                                *)
(***************************************************************************)
InitSpinLock ==
    /\ state = 0
    /\ shared = 0
    /\ slPc = [p \in Lockers |-> "idle"]
    /\ slTmp = [p \in Lockers |-> 0]
    /\ slIter = [p \in Lockers |-> 0]
    /\ slTries = [p \in Lockers |-> 0]
    /\ slOk = [p \in Lockers |-> FALSE]
    /\ slRogue = 0

\* A Lock whose swap is not conditional on the lock being free.
Lock_Blind(p) ==
    /\ slPc[p] = "idle"
    /\ slIter[p] < Iterations
    /\ state' = 1
    /\ slPc' = [slPc EXCEPT ![p] = "read"]
    /\ UNCHANGED <<shared, slTmp, slIter, slTries, slOk, slRogue>>
    /\ SpinFrame

\* A Lock that returns after one failed attempt.
Lock_GiveUp(p) ==
    /\ slPc[p] = "idle"
    /\ slIter[p] < Iterations
    /\ state' = CasVal(state, 0, 1)
    /\ slPc' = [slPc EXCEPT ![p] = "read"]
    /\ UNCHANGED <<shared, slTmp, slIter, slTries, slOk, slRogue>>
    /\ SpinFrame

\* func (sl *SpinLock) Lock(): one turn of the for loop.  A failed swap
\* leaves the caller in the loop (a step that changes nothing).
Lock(p) ==
    /\ slPc[p] = "idle"
    /\ slIter[p] < Iterations
    /\ state' = CasVal(state, 0, 1)
    /\ slPc' = [slPc EXCEPT ![p] = IF CasOk(state, 0, 1) THEN "read" ELSE "idle"]
    /\ UNCHANGED <<shared, slTmp, slIter, slTries, slOk, slRogue>>
    /\ SpinFrame

\* The critical section: tmp := shared; shared = tmp + 1, two plain accesses.
CriticalRead(p) ==
    /\ slPc[p] = "read"
    /\ slTmp' = [slTmp EXCEPT ![p] = shared]
    /\ slPc' = [slPc EXCEPT ![p] = "write"]
    /\ UNCHANGED <<state, shared, slIter, slTries, slOk, slRogue>>
    /\ SpinFrame

CriticalWrite(p) ==
    /\ slPc[p] = "write"
    /\ shared' = slTmp[p] + 1
    /\ slPc' = [slPc EXCEPT ![p] = "unlock"]
    /\ UNCHANGED <<state, slTmp, slIter, slTries, slOk, slRogue>>
    /\ SpinFrame

\* func (sl *SpinLock) Unlock(), called by the holder after its section.
Unlock(p) ==
    /\ slPc[p] = "unlock"
    /\ state' = 0
    /\ slPc' = [slPc EXCEPT ![p] = "idle"]
    /\ slIter' = [slIter EXCEPT ![p] = @ + 1]
    /\ UNCHANGED <<shared, slTmp, slTries, slOk, slRogue>>
    /\ SpinFrame

NextSpinLock ==
    \E p \in Lockers : Lock(p) \/ CriticalRead(p) \/ CriticalWrite(p) \/ Unlock(p)

\* The TryLock calls the first n goroutines have made.
RECURSIVE TriesUpTo(_)
TriesUpTo(n) == IF n = 0 THEN 0 ELSE slTries[n] + TriesUpTo(n - 1)
Tries == TriesUpTo(NumLockers)

\* A TryLock that takes the lock and reports success whatever its state.
TryLock_Blind(p) ==
    /\ slPc[p] = "idle"
    /\ Tries < MaxTries
    /\ slTries' = [slTries EXCEPT ![p] = @ + 1]
    /\ state' = 1
    /\ slOk' = [slOk EXCEPT ![p] = TRUE]
    /\ slPc' = [slPc EXCEPT ![p] = "read"]
    /\ UNCHANGED <<shared, slTmp, slIter, slRogue>>
    /\ SpinFrame

\* func (sl *SpinLock) TryLock() bool: one CompareAndSwapInt32(&sl.state, 0,
\* 1).  The caller that got true goes on to its critical section and
\* Unlock; the one that got false goes on without the lock.
TryLock(p) ==
    /\ slPc[p] = "idle"
    /\ Tries < MaxTries
    /\ slTries' = [slTries EXCEPT ![p] = @ + 1]
    /\ state' = CasVal(state, 0, 1)
    /\ slOk' = [slOk EXCEPT ![p] = CasOk(state, 0, 1)]
    /\ slPc' = [slPc EXCEPT ![p] = IF CasOk(state, 0, 1) THEN "read" ELSE "idle"]
    /\ UNCHANGED <<shared, slTmp, slIter, slRogue>>
    /\ SpinFrame

\* Goroutines that take the lock with TryLock.
NextTryLock ==
    \E p \in Lockers : TryLock(p) \/ CriticalRead(p) \/ CriticalWrite(p) \/ Unlock(p)

\* An Unlock that checks ownership: called by a goroutine that does not
\* hold the lock, it leaves the lock as it is.
RogueUnlock_Owned(p) ==
    /\ slPc[p] = "idle"
    /\ slRogue < MaxRogue
    /\ slRogue' = slRogue + 1
    /\ UNCHANGED <<state, shared, slPc, slTmp, slIter, slTries, slOk>>
    /\ SpinFrame

\* func (sl *SpinLock) Unlock(), called by a goroutine that is not in its
\* critical section: the same StoreInt32(&sl.state, 0).
RogueUnlock(p) ==
    /\ slPc[p] = "idle"
    /\ slRogue < MaxRogue
    /\ state' = 0
    /\ slRogue' = slRogue + 1
    /\ UNCHANGED <<shared, slPc, slTmp, slIter, slTries, slOk>>
    /\ SpinFrame

\* Goroutines that each take the lock once with Lock, where Unlock may also
\* be called by one that does not hold it.
FirstLock(p) == slIter[p] = 0 /\ Lock(p)

NextSpinRogue ==
    \E p \in Lockers :
        FirstLock(p) \/ CriticalRead(p) \/ CriticalWrite(p) \/ Unlock(p) \/ RogueUnlock(p)

\* p is in Lock, spinning until its swap succeeds.
Spinning(p) == slPc[p] = "idle" /\ slIter[p] < Iterations
InCritical(p) == slPc[p] \in {"read", "write", "unlock"}
LockersDone == \A p \in Lockers : slPc[p] = "idle" /\ slIter[p] = Iterations

(***************************************************************************)
(* AtomicCounter.  value is an int64; the counts reached here stay far      *)
(* from its limits, so the wrap-around of AddInt64 never comes into play.  *)
(***************************************************************************)
InitCounter ==
    /\ value = 0
    /\ acCalls = [p \in CounterProcs |-> 0]
    /\ acRet = [p \in CounterProcs |-> 0]
    /\ nInc = 0
    /\ nDec = 0
    /\ acOld = [p \in CounterProcs |-> 0]
    /\ acNew = [p \in CounterProcs |-> 0]
    /\ acOk = [p \in CounterProcs |-> FALSE]
    /\ acCas = [p \in CounterProcs |-> 0]
    /\ nCasOk = 0

\* An Increment done as a load and a later store of load + 1: the store is
\* computed from the value the goroutine last saw, not the current one.
Increment_Stale(p) ==
    /\ acCalls[p] < CounterCalls
    /\ value' = acRet[p] + 1
    /\ acRet' = [acRet EXCEPT ![p] = value']
    /\ acCalls' = [acCalls EXCEPT ![p] = @ + 1]
    /\ nInc' = nInc + 1
    /\ UNCHANGED <<nDec, acOld, acNew, acOk, acCas, nCasOk>>
    /\ CounterFrame

\* An Increment that returns the value it found (a fetch-and-add).
Increment_ReturnsOld(p) ==
    /\ acCalls[p] < CounterCalls
    /\ value' = value + 1
    /\ acRet' = [acRet EXCEPT ![p] = value]
    /\ acCalls' = [acCalls EXCEPT ![p] = @ + 1]
    /\ nInc' = nInc + 1
    /\ UNCHANGED <<nDec, acOld, acNew, acOk, acCas, nCasOk>>
    /\ CounterFrame

\* func (c *AtomicCounter) Increment() int64: atomic.AddInt64(&c.value, 1)
Increment(p) ==
    /\ acCalls[p] < CounterCalls
    /\ value' = value + 1
    /\ acRet' = [acRet EXCEPT ![p] = value']
    /\ acCalls' = [acCalls EXCEPT ![p] = @ + 1]
    /\ nInc' = nInc + 1
    /\ UNCHANGED <<nDec, acOld, acNew, acOk, acCas, nCasOk>>
    /\ CounterFrame

\* func (c *AtomicCounter) Decrement() int64: atomic.AddInt64(&c.value, -1)
Decrement(p) ==
    /\ acCalls[p] < CounterCalls
    /\ value' = value - 1
    /\ acRet' = [acRet EXCEPT ![p] = value']
    /\ acCalls' = [acCalls EXCEPT ![p] = @ + 1]
    /\ nDec' = nDec + 1
    /\ UNCHANGED <<nInc, acOld, acNew, acOk, acCas, nCasOk>>
    /\ CounterFrame

\* func (c *AtomicCounter) Get() int64: atomic.LoadInt64(&c.value)
Get == value

NextCounter ==
    \E p \in CounterProcs : Increment(p) \/ Decrement(p)

\* A CompareAndSet that stores new and reports success whatever the value.
CompareAndSet_Blind(p, old, new) ==
    /\ acCalls[p] < CounterCalls
    /\ acCalls' = [acCalls EXCEPT ![p] = @ + 1]
    /\ value' = new
    /\ acOld' = [acOld EXCEPT ![p] = old]
    /\ acNew' = [acNew EXCEPT ![p] = new]
    /\ acOk' = [acOk EXCEPT ![p] = TRUE]
    /\ acCas' = [acCas EXCEPT ![p] = @ + 1]
    /\ nCasOk' = nCasOk + 1
    /\ UNCHANGED <<acRet, nInc, nDec>>
    /\ CounterFrame

\* func (c *AtomicCounter) CompareAndSet(old, new int64) bool:
\* atomic.CompareAndSwapInt64(&c.value, old, new)
CompareAndSet(p, old, new) ==
    /\ acCalls[p] < CounterCalls
    /\ acCalls' = [acCalls EXCEPT ![p] = @ + 1]
    /\ value' = CasVal(value, old, new)
    /\ acOld' = [acOld EXCEPT ![p] = old]
    /\ acNew' = [acNew EXCEPT ![p] = new]
    /\ acOk' = [acOk EXCEPT ![p] = CasOk(value, old, new)]
    /\ acCas' = [acCas EXCEPT ![p] = @ + 1]
    /\ nCasOk' = IF CasOk(value, old, new) THEN nCasOk + 1 ELSE nCasOk
    /\ UNCHANGED <<acRet, nInc, nDec>>
    /\ CounterFrame

\* The arguments CompareAndSet is called with.
CasValues == 0..NumCounters

\* Any interleaving of Increment, Decrement and CompareAndSet calls.
NextCounterCas ==
    \E p \in CounterProcs :
        \/ Increment(p) \/ Decrement(p)
        \/ \E old, new \in CasValues : CompareAndSet(p, old, new)

\* The goroutines that have called CompareAndSet in the race below.
Racers == {p \in CounterProcs : acCas[p] > 0}

\* A race of CompareAndSet calls: after at most one Increment, each
\* goroutine makes one call, all with the same old, each with a new of its
\* own.
SetupIncrement(p) == Racers = {} /\ nInc = 0 /\ Increment(p)
RaceCompareAndSet(p, old, new) ==
    /\ p \notin Racers
    /\ \A q \in Racers : acOld[q] = old /\ acNew[q] # new
    /\ CompareAndSet(p, old, new)

NextCounterRace ==
    \E p \in CounterProcs :
        \/ SetupIncrement(p)
        \/ \E old, new \in CasValues : RaceCompareAndSet(p, old, new)

CounterDone == \A p \in CounterProcs : acCalls[p] = CounterCalls

(***************************************************************************)
(* AtomicFlag                                                              *)
(***************************************************************************)
InitFlag ==
    /\ flag = 0
    /\ tgPc = [p \in Togglers |-> "idle"]
    /\ tgOld = [p \in Togglers |-> 0]
    /\ tgRet = [p \in Togglers |-> FALSE]
    /\ tgCalls = [p \in Togglers |-> 0]
    /\ nToggle = 0
    /\ tgStale = [p \in Togglers |-> FALSE]

\* func (f *AtomicFlag) IsSet() bool
IsSet == flag = 1

\* tgStale after a call of p has written the flag: the goroutines between
\* the load and the swap of a Toggle have been overtaken if the write
\* changed the flag; p itself is past its swap.
Overtaken(p, changed) ==
    [q \in Togglers |-> IF q = p THEN FALSE
                        ELSE IF changed /\ tgPc[q] = "cas" THEN TRUE
                        ELSE tgStale[q]]

\* Toggle, line 89: old := atomic.LoadInt32(&f.flag), on entering the call
\* ("idle") or on coming round the loop after a failed swap ("load").
ToggleLoad(p) ==
    /\ \/ tgPc[p] = "idle" /\ tgCalls[p] < ToggleCalls
       \/ tgPc[p] = "load"
    /\ tgOld' = [tgOld EXCEPT ![p] = flag]
    /\ tgPc' = [tgPc EXCEPT ![p] = "cas"]
    /\ tgCalls' = [tgCalls EXCEPT ![p] = IF tgPc[p] = "idle" THEN @ + 1 ELSE @]
    /\ tgStale' = [tgStale EXCEPT ![p] = FALSE]
    /\ UNCHANGED <<flag, tgRet, nToggle>>
    /\ FlagFrame

\* A Toggle that stores the complement of what it loaded without comparing.
ToggleSwap_Store(p) ==
    /\ tgPc[p] = "cas"
    /\ flag' = 1 - tgOld[p]
    /\ tgRet' = [tgRet EXCEPT ![p] = (1 - tgOld[p]) = 1]
    /\ tgPc' = [tgPc EXCEPT ![p] = "idle"]
    /\ nToggle' = nToggle + 1
    /\ tgStale' = Overtaken(p, flag' # flag)
    /\ UNCHANGED <<tgOld, tgCalls>>
    /\ FlagFrame

\* A Toggle that returns the state it replaced.
ToggleSwap_ReturnsOld(p) ==
    /\ tgPc[p] = "cas"
    /\ flag' = CasVal(flag, tgOld[p], 1 - tgOld[p])
    /\ IF CasOk(flag, tgOld[p], 1 - tgOld[p])
       THEN /\ tgRet' = [tgRet EXCEPT ![p] = tgOld[p] = 1]
            /\ tgPc' = [tgPc EXCEPT ![p] = "idle"]
            /\ nToggle' = nToggle + 1
            /\ UNCHANGED tgOld
       ELSE /\ tgPc' = [tgPc EXCEPT ![p] = "load"]
            /\ UNCHANGED <<tgOld, tgRet, nToggle>>
    /\ tgStale' = Overtaken(p, flag' # flag)
    /\ UNCHANGED tgCalls
    /\ FlagFrame

\* A Toggle that, after a failed swap, tries the swap again with the old
\* it already has instead of loading the flag anew.
ToggleSwap_NoReload(p) ==
    /\ tgPc[p] = "cas"
    /\ flag' = CasVal(flag, tgOld[p], 1 - tgOld[p])
    /\ IF CasOk(flag, tgOld[p], 1 - tgOld[p])
       THEN /\ tgRet' = [tgRet EXCEPT ![p] = (1 - tgOld[p]) = 1]
            /\ tgPc' = [tgPc EXCEPT ![p] = "idle"]
            /\ nToggle' = nToggle + 1
            /\ UNCHANGED tgOld
       ELSE UNCHANGED <<tgPc, tgOld, tgRet, nToggle>>
    /\ tgStale' = Overtaken(p, flag' # flag)
    /\ UNCHANGED tgCalls
    /\ FlagFrame

\* Toggle, lines 90-93: new := 1 - old; on a successful swap return new == 1,
\* otherwise go round the loop again (back to the load).
ToggleSwap(p) ==
    /\ tgPc[p] = "cas"
    /\ flag' = CasVal(flag, tgOld[p], 1 - tgOld[p])
    /\ IF CasOk(flag, tgOld[p], 1 - tgOld[p])
       THEN /\ tgRet' = [tgRet EXCEPT ![p] = (1 - tgOld[p]) = 1]
            /\ tgPc' = [tgPc EXCEPT ![p] = "idle"]
            /\ nToggle' = nToggle + 1
            /\ UNCHANGED tgOld
       ELSE /\ tgPc' = [tgPc EXCEPT ![p] = "load"]
            /\ UNCHANGED <<tgOld, tgRet, nToggle>>
    /\ tgStale' = Overtaken(p, flag' # flag)
    /\ UNCHANGED tgCalls
    /\ FlagFrame

NextFlag ==
    \E p \in Togglers : ToggleLoad(p) \/ ToggleSwap(p)

\* A Set done as an increment of the flag.
FlagSet_Add(p) ==
    /\ tgPc[p] = "idle"
    /\ tgCalls[p] < ToggleCalls
    /\ tgCalls' = [tgCalls EXCEPT ![p] = @ + 1]
    /\ flag' = flag + 1
    /\ tgStale' = Overtaken(p, flag' # flag)
    /\ UNCHANGED <<tgPc, tgOld, tgRet, nToggle>>
    /\ FlagFrame

\* func (f *AtomicFlag) Set(): atomic.StoreInt32(&f.flag, 1)
FlagSet(p) ==
    /\ tgPc[p] = "idle"
    /\ tgCalls[p] < ToggleCalls
    /\ tgCalls' = [tgCalls EXCEPT ![p] = @ + 1]
    /\ flag' = 1
    /\ tgStale' = Overtaken(p, flag' # flag)
    /\ UNCHANGED <<tgPc, tgOld, tgRet, nToggle>>
    /\ FlagFrame

\* func (f *AtomicFlag) Clear(): atomic.StoreInt32(&f.flag, 0)
FlagClear(p) ==
    /\ tgPc[p] = "idle"
    /\ tgCalls[p] < ToggleCalls
    /\ tgCalls' = [tgCalls EXCEPT ![p] = @ + 1]
    /\ flag' = 0
    /\ tgStale' = Overtaken(p, flag' # flag)
    /\ UNCHANGED <<tgPc, tgOld, tgRet, nToggle>>
    /\ FlagFrame

\* Any interleaving of Set, Clear and Toggle calls.
NextFlagAll ==
    \E p \in Togglers : FlagSet(p) \/ FlagClear(p) \/ ToggleLoad(p) \/ ToggleSwap(p)

\* The calls the first n goroutines have made to the flag.
RECURSIVE FlagCallsUpTo(_)
FlagCallsUpTo(n) == IF n = 0 THEN 0 ELSE tgCalls[n] + FlagCallsUpTo(n - 1)
FlagCalls == FlagCallsUpTo(NumTogglers)

\* The same interleavings, of MaxFlagCalls calls in all.
MixedSet(p) == FlagCalls < MaxFlagCalls /\ FlagSet(p)
MixedClear(p) == FlagCalls < MaxFlagCalls /\ FlagClear(p)
MixedToggleLoad(p) == (tgPc[p] = "idle" => FlagCalls < MaxFlagCalls) /\ ToggleLoad(p)

NextFlagMixed ==
    \E p \in Togglers : MixedSet(p) \/ MixedClear(p) \/ MixedToggleLoad(p) \/ ToggleSwap(p)

\* Concurrent Toggle calls, one per goroutine.
OneToggleLoad(p) == (tgPc[p] = "idle" => tgCalls[p] = 0) /\ ToggleLoad(p)

NextFlagRace ==
    \E p \in Togglers : OneToggleLoad(p) \/ ToggleSwap(p)

ToggleReturned(p) == tgPc[p] = "idle" /\ tgCalls[p] = 1

TogglersDone == \A p \in Togglers : tgPc[p] = "idle" /\ tgCalls[p] = ToggleCalls

(***************************************************************************)
(* ReferenceCounter.  refs is an int32; the counts reached here stay far   *)
(* from its limits.                                                        *)
(***************************************************************************)
\* func NewReferenceCounter(onZero func()): refs 1; onZero may be nil.
InitRefCounter ==
    /\ refs = 1
    /\ hasOnZero \in BOOLEAN
    /\ called = 0
    /\ rcPc = [p \in Holders |-> "idle"]
    /\ rcCalls = [p \in Holders |-> 0]
    /\ nAcq = 0
    /\ nRel = 0
    /\ nZero = 0

\* An Acquire whose increment is lost.
Acquire_Lost(p) ==
    /\ rcPc[p] = "idle"
    /\ rcCalls[p] < RefCalls
    /\ rcCalls' = [rcCalls EXCEPT ![p] = @ + 1]
    /\ nAcq' = nAcq + 1
    /\ UNCHANGED <<refs, hasOnZero, called, rcPc, nRel, nZero>>
    /\ RefFrame

\* func (rc *ReferenceCounter) Acquire(): atomic.AddInt32(&rc.refs, 1)
Acquire(p) ==
    /\ rcPc[p] = "idle"
    /\ rcCalls[p] < RefCalls
    /\ refs' = refs + 1
    /\ rcCalls' = [rcCalls EXCEPT ![p] = @ + 1]
    /\ nAcq' = nAcq + 1
    /\ UNCHANGED <<hasOnZero, called, rcPc, nRel, nZero>>
    /\ RefFrame

\* A Release that tests the decrement's result against 1, as one would test
\* the previous value a fetch-and-subtract returns.
ReleaseAdd_Previous(p) ==
    /\ rcPc[p] = "idle"
    /\ rcCalls[p] < RefCalls
    /\ refs' = refs - 1
    /\ rcCalls' = [rcCalls EXCEPT ![p] = @ + 1]
    /\ nRel' = nRel + 1
    /\ nZero' = IF refs' = 1 THEN nZero + 1 ELSE nZero
    /\ rcPc' = [rcPc EXCEPT ![p] = IF refs' = 1 /\ hasOnZero THEN "onZero" ELSE "idle"]
    /\ UNCHANGED <<hasOnZero, called, nAcq>>
    /\ RefFrame

\* Release, lines 118-119: the decrement and the test of its result are one
\* atomic.AddInt32; the caller that got 0 goes on to call onZero if non-nil.
ReleaseAdd(p) ==
    /\ rcPc[p] = "idle"
    /\ rcCalls[p] < RefCalls
    /\ refs' = refs - 1
    /\ rcCalls' = [rcCalls EXCEPT ![p] = @ + 1]
    /\ nRel' = nRel + 1
    /\ nZero' = IF refs' = 0 THEN nZero + 1 ELSE nZero
    /\ rcPc' = [rcPc EXCEPT ![p] = IF refs' = 0 /\ hasOnZero THEN "onZero" ELSE "idle"]
    /\ UNCHANGED <<hasOnZero, called, nAcq>>
    /\ RefFrame

\* Release, line 120: rc.onZero()
ReleaseOnZero(p) ==
    /\ rcPc[p] = "onZero"
    /\ called' = called + 1
    /\ rcPc' = [rcPc EXCEPT ![p] = "idle"]
    /\ UNCHANGED <<refs, hasOnZero, rcCalls, nAcq, nRel, nZero>>
    /\ RefFrame

\* func (rc *ReferenceCounter) Count() int32
Count == refs

\* Any interleaving of Acquire and Release calls.
NextRefCounter ==
    \E p \in Holders : Acquire(p) \/ ReleaseAdd(p) \/ ReleaseOnZero(p)

\* The count is first raised to some n, then exactly n Release calls run
\* concurrently: no Acquire once a Release has started, and no Release
\* beyond the references held.
SetupAcquire(p) == nRel = 0 /\ Acquire(p)
OwnedRelease(p) == nRel < 1 + nAcq /\ ReleaseAdd(p)

NextRelease ==
    \E p \in Holders : SetupAcquire(p) \/ OwnedRelease(p) \/ ReleaseOnZero(p)

\* Correct use: Acquire at any time, Release only of a reference held (the
\* Release calls started never exceed 1 plus the Acquire calls completed).
NextRefOwned ==
    \E p \in Holders : Acquire(p) \/ OwnedRelease(p) \/ ReleaseOnZero(p)

HoldersIdle == \A p \in Holders : rcPc[p] = "idle"
InOnZero == {p \in Holders : rcPc[p] = "onZero"}

(***************************************************************************)
(* Worker.  A runtime panic that nothing recovers ends the program: once   *)
(* panicked, no goroutine takes another step.                              *)
(***************************************************************************)
\* func NewWorker(): running 0, processed 0, an empty workQueue of capacity
\* 100, an open stopSignal; no run() goroutine yet.
InitWorker ==
    /\ running = 0
    /\ processed = 0
    /\ workQueue = <<>>
    /\ stopSignal = "open"
    /\ panicked = FALSE
    /\ tasks = <<>>
    /\ wkPc = [c \in Callers |-> "idle"]
    /\ wkItem = [c \in Callers |-> 0]
    /\ startCalls = 0
    /\ stopCalls = 0
    /\ submitCalls = 0
    /\ submitted = 0
    /\ accepted = 0

\* func (w *Worker) IsRunning() bool
IsRunning == running = 1

\* func (w *Worker) ProcessedCount() int64
ProcessedCount == processed

\* A Start that stores 1 into running and spawns, whatever running was.
Start_Store(c) ==
    /\ ~panicked
    /\ wkPc[c] = "idle"
    /\ startCalls < MaxStarts
    /\ startCalls' = startCalls + 1
    /\ running' = 1
    /\ wkPc' = [wkPc EXCEPT ![c] = "spawn"]
    /\ UNCHANGED <<processed, workQueue, stopSignal, panicked, tasks, wkItem,
                   stopCalls, submitCalls, submitted>>
    /\ UNCHANGED accepted
    /\ WorkerFrame

\* Start, line 208: atomic.CompareAndSwapInt32(&w.running, 0, 1); the
\* caller whose swap took effect goes on to spawn, any other returns.
Start(c) ==
    /\ ~panicked
    /\ wkPc[c] = "idle"
    /\ startCalls < MaxStarts
    /\ startCalls' = startCalls + 1
    /\ running' = CasVal(running, 0, 1)
    /\ wkPc' = [wkPc EXCEPT ![c] = IF CasOk(running, 0, 1) THEN "spawn" ELSE "idle"]
    /\ UNCHANGED <<processed, workQueue, stopSignal, panicked, tasks, wkItem,
                   stopCalls, submitCalls, submitted>>
    /\ UNCHANGED accepted
    /\ WorkerFrame

\* Start, line 209: go w.run()
StartSpawn(c) ==
    /\ ~panicked
    /\ wkPc[c] = "spawn"
    /\ tasks' = Append(tasks, "select")
    /\ wkPc' = [wkPc EXCEPT ![c] = "idle"]
    /\ UNCHANGED <<running, processed, workQueue, stopSignal, panicked, wkItem,
                   startCalls, stopCalls, submitCalls, submitted>>
    /\ UNCHANGED accepted
    /\ WorkerFrame

\* A Stop that stores 0 into running and closes, whatever running was.
Stop_Store(c) ==
    /\ ~panicked
    /\ wkPc[c] = "idle"
    /\ stopCalls < MaxStops
    /\ stopCalls' = stopCalls + 1
    /\ running' = 0
    /\ wkPc' = [wkPc EXCEPT ![c] = "close"]
    /\ UNCHANGED <<processed, workQueue, stopSignal, panicked, tasks, wkItem,
                   startCalls, submitCalls, submitted>>
    /\ UNCHANGED accepted
    /\ WorkerFrame

\* Stop, line 215: atomic.CompareAndSwapInt32(&w.running, 1, 0); the caller
\* whose swap took effect goes on to close stopSignal, any other returns.
Stop(c) ==
    /\ ~panicked
    /\ wkPc[c] = "idle"
    /\ stopCalls < MaxStops
    /\ stopCalls' = stopCalls + 1
    /\ running' = CasVal(running, 1, 0)
    /\ wkPc' = [wkPc EXCEPT ![c] = IF CasOk(running, 1, 0) THEN "close" ELSE "idle"]
    /\ UNCHANGED <<processed, workQueue, stopSignal, panicked, tasks, wkItem,
                   startCalls, submitCalls, submitted>>
    /\ UNCHANGED accepted
    /\ WorkerFrame

\* Stop, line 216: close(w.stopSignal).  Closing a channel that is already
\* closed is a runtime panic ("close of closed channel").
StopClose(c) ==
    /\ ~panicked
    /\ wkPc[c] = "close"
    /\ IF stopSignal = "closed"
       THEN /\ panicked' = TRUE
            /\ UNCHANGED <<stopSignal, wkPc>>
       ELSE /\ stopSignal' = "closed"
            /\ wkPc' = [wkPc EXCEPT ![c] = "idle"]
            /\ UNCHANGED panicked
    /\ UNCHANGED <<running, processed, workQueue, tasks, wkItem,
                   startCalls, stopCalls, submitCalls, submitted>>
    /\ UNCHANGED accepted
    /\ WorkerFrame

\* A Submit that goes on to the send without looking at running.
SubmitCheck_Unchecked(c) ==
    /\ ~panicked
    /\ wkPc[c] = "idle"
    /\ submitCalls < MaxSubmits
    /\ submitCalls' = submitCalls + 1
    /\ wkPc' = [wkPc EXCEPT ![c] = "send"]
    /\ wkItem' = [wkItem EXCEPT ![c] = submitCalls']
    /\ submitted' = submitted + 1
    /\ UNCHANGED <<running, processed, workQueue, stopSignal, panicked, tasks,
                   startCalls, stopCalls>>
    /\ UNCHANGED accepted
    /\ WorkerFrame

\* Submit, line 232: if w.IsRunning().  run() never looks at the items, so
\* the k-th Submit call submits the item k: every item stays identifiable.
\* max bounds the Submit calls made in all.
SubmitCheckUpTo(c, max) ==
    /\ ~panicked
    /\ wkPc[c] = "idle"
    /\ submitCalls < max
    /\ submitCalls' = submitCalls + 1
    /\ IF IsRunning
       THEN /\ wkPc' = [wkPc EXCEPT ![c] = "send"]
            /\ wkItem' = [wkItem EXCEPT ![c] = submitCalls']
            /\ submitted' = submitted + 1
       ELSE UNCHANGED <<wkPc, wkItem, submitted>>
    /\ UNCHANGED <<running, processed, workQueue, stopSignal, panicked, tasks,
                   startCalls, stopCalls>>
    /\ UNCHANGED accepted
    /\ WorkerFrame

SubmitCheck(c) == SubmitCheckUpTo(c, MaxSubmits)

\* A Submit whose send waits for room in the buffer (no default case).
SubmitSend_Blocking(c) ==
    /\ ~panicked
    /\ wkPc[c] = "send"
    /\ Len(workQueue) < QueueCap
    /\ workQueue' = Append(workQueue, wkItem[c])
    /\ accepted' = accepted + 1
    /\ wkPc' = [wkPc EXCEPT ![c] = "idle"]
    /\ wkItem' = [wkItem EXCEPT ![c] = 0]
    /\ UNCHANGED <<running, processed, stopSignal, panicked, tasks,
                   startCalls, stopCalls, submitCalls, submitted>>
    /\ WorkerFrame

\* Submit, lines 233-237: select { case w.workQueue <- work: default: }, a
\* send when the buffer has room, otherwise the item is dropped; the call
\* returns and its parameter work is gone.
SubmitSend(c) ==
    /\ ~panicked
    /\ wkPc[c] = "send"
    /\ workQueue' = IF Len(workQueue) < QueueCap
                    THEN Append(workQueue, wkItem[c])
                    ELSE workQueue
    /\ accepted' = IF Len(workQueue) < QueueCap THEN accepted + 1 ELSE accepted
    /\ wkPc' = [wkPc EXCEPT ![c] = "idle"]
    /\ wkItem' = [wkItem EXCEPT ![c] = 0]
    /\ UNCHANGED <<running, processed, stopSignal, panicked, tasks,
                   startCalls, stopCalls, submitCalls, submitted>>
    /\ WorkerFrame

\* The run() goroutines spawned so far; each Start call spawns one at most.
TaskIds == 1..MaxStarts
Tasks == DOMAIN tasks

\* run, line 244: the select takes the case work := <-w.workQueue, which is
\* ready when an item is buffered.
RunReceive(i) ==
    /\ ~panicked
    /\ i \in Tasks
    /\ tasks[i] = "select"
    /\ workQueue # <<>>
    /\ workQueue' = Tail(workQueue)
    /\ tasks' = [tasks EXCEPT ![i] = "count"]
    /\ UNCHANGED <<running, processed, stopSignal, panicked, wkPc, wkItem,
                   startCalls, stopCalls, submitCalls, submitted>>
    /\ UNCHANGED accepted
    /\ WorkerFrame

\* An item taken from the queue is not counted.
RunCount_Skip(i) ==
    /\ ~panicked
    /\ i \in Tasks
    /\ tasks[i] = "count"
    /\ tasks' = [tasks EXCEPT ![i] = "select"]
    /\ UNCHANGED <<running, processed, workQueue, stopSignal, panicked, wkPc,
                   wkItem, startCalls, stopCalls, submitCalls, submitted>>
    /\ UNCHANGED accepted
    /\ WorkerFrame

\* run, line 247: atomic.AddInt64(&w.processed, 1), then round the loop.
RunCount(i) ==
    /\ ~panicked
    /\ i \in Tasks
    /\ tasks[i] = "count"
    /\ processed' = processed + 1
    /\ tasks' = [tasks EXCEPT ![i] = "select"]
    /\ UNCHANGED <<running, workQueue, stopSignal, panicked, wkPc, wkItem,
                   startCalls, stopCalls, submitCalls, submitted>>
    /\ UNCHANGED accepted
    /\ WorkerFrame

\* A run() that takes the stop case and goes round the loop instead of
\* returning.
RunStop_Continue(i) ==
    /\ ~panicked
    /\ i \in Tasks
    /\ tasks[i] = "select"
    /\ stopSignal = "closed"
    /\ UNCHANGED workerVars
    /\ WorkerFrame

\* run, lines 248-249: the select takes the case <-w.stopSignal, which is
\* ready once the channel is closed, and run returns.  When both cases are
\* ready the select takes either.
RunStop(i) ==
    /\ ~panicked
    /\ i \in Tasks
    /\ tasks[i] = "select"
    /\ stopSignal = "closed"
    /\ tasks' = [tasks EXCEPT ![i] = "exited"]
    /\ UNCHANGED <<running, processed, workQueue, stopSignal, panicked, wkPc,
                   wkItem, startCalls, stopCalls, submitCalls, submitted>>
    /\ UNCHANGED accepted
    /\ WorkerFrame

LiveTasks == {i \in Tasks : tasks[i] # "exited"}
Spawning == {c \in Callers : wkPc[c] = "spawn"}
Closing == {c \in Callers : wkPc[c] = "close"}
CallersIdle == \A c \in Callers : wkPc[c] = "idle"

\* The steps of the run() goroutines on a worker that is not stopped.
RunSteps == \E i \in TaskIds : RunReceive(i) \/ RunCount(i)

\* Any interleaving of Start, Stop and Submit calls.
NextWorker ==
    \/ \E c \in Callers : Start(c) \/ StartSpawn(c) \/ Stop(c) \/ StopClose(c)
    \/ \E c \in Callers : SubmitCheck(c) \/ SubmitSend(c)
    \/ \E i \in TaskIds : RunReceive(i) \/ RunCount(i) \/ RunStop(i)

\* A worker that is started and fed, and never stopped.
NextWorkerRun ==
    \/ \E c \in Callers : Start(c) \/ StartSpawn(c)
    \/ \E c \in Callers : SubmitCheck(c) \/ SubmitSend(c)
    \/ \E i \in TaskIds : RunReceive(i) \/ RunCount(i)

\* A worker that is started and never stopped, fed past the capacity of its
\* queue: Submit calls on the running worker, one after the other (another
\* begins when the last has returned), QueueCap + MaxSubmits in all, while
\* run() consumes at its own pace.
RunningSubmit(c) ==
    /\ IsRunning
    /\ \A d \in Callers : wkPc[d] # "send"
    /\ SubmitCheckUpTo(c, QueueCap + MaxSubmits)

NextWorkerFill ==
    \/ \E c \in Callers : Start(c) \/ StartSpawn(c)
    \/ \E c \in Callers : RunningSubmit(c) \/ SubmitSend(c)
    \/ \E i \in TaskIds : RunReceive(i) \/ RunCount(i)

\* One life of a worker: no Start once a Stop has taken effect.
Stopped == stopSignal = "closed" \/ Closing # {}
FirstStart(c) == ~Stopped /\ Start(c)

NextWorkerCycle ==
    \/ \E c \in Callers : FirstStart(c) \/ StartSpawn(c) \/ Stop(c) \/ StopClose(c)
    \/ \E c \in Callers : SubmitCheck(c) \/ SubmitSend(c)
    \/ \E i \in TaskIds : RunReceive(i) \/ RunCount(i) \/ RunStop(i)

(***************************************************************************)
(* SafeMap: a sync.Map, whose Load, Store and LoadAndDelete are each       *)
(* atomic on one key, and a size counter kept beside it.                   *)
(***************************************************************************)
Absent == 0

\* The zero value &SafeMap{}: an empty map, size 0.
InitSafeMap ==
    /\ m = [k \in Keys |-> Absent]
    /\ size = 0
    /\ smPc = [p \in Mappers |-> "idle"]
    /\ smKey = [p \in Mappers |-> 0]
    /\ smVal = [p \in Mappers |-> 0]
    /\ smExists = [p \in Mappers |-> FALSE]
    /\ smCalls = 0
    /\ smLast = [k \in Keys |-> Absent]
    /\ nAbsent = 0
    /\ nLoaded = 0
    /\ nDel = 0

\* Set, line 263: _, exists := sm.m.Load(key). The value of the n-th call
\* is n, so that every Set writes a value of its own.
SetLoad(p, k) ==
    /\ smPc[p] = "idle"
    /\ smCalls < MapCalls
    /\ smCalls' = smCalls + 1
    /\ smKey' = [smKey EXCEPT ![p] = k]
    /\ smVal' = [smVal EXCEPT ![p] = smCalls']
    /\ smExists' = [smExists EXCEPT ![p] = m[k] # Absent]
    /\ smPc' = [smPc EXCEPT ![p] = "store"]
    /\ smLast' = [smLast EXCEPT ![k] = smCalls']
    /\ nAbsent' = IF m[k] = Absent THEN nAbsent + 1 ELSE nAbsent
    /\ UNCHANGED <<m, size, nLoaded, nDel>>
    /\ MapFrame

\* A Set that goes on to the increment whether or not the key existed.
SetStore_AlwaysAdd(p) ==
    /\ smPc[p] = "store"
    /\ m' = [m EXCEPT ![smKey[p]] = smVal[p]]
    /\ smPc' = [smPc EXCEPT ![p] = "add"]
    /\ UNCHANGED <<size, smKey, smVal, smExists, smCalls, smLast, nAbsent, nLoaded, nDel>>
    /\ MapFrame

\* A Set whose store itself tells whether the key was new (a LoadOrStore
\* in place of the earlier Load), so that one caller at most counts a key.
SetStore_Combined(p) ==
    /\ smPc[p] = "store"
    /\ m' = [m EXCEPT ![smKey[p]] = smVal[p]]
    /\ smPc' = [smPc EXCEPT ![p] = IF m[smKey[p]] # Absent THEN "idle" ELSE "add"]
    /\ UNCHANGED <<size, smKey, smVal, smExists, smCalls, smLast, nAbsent, nLoaded, nDel>>
    /\ MapFrame

\* Set, lines 265-267: sm.m.Store(key, value); if !exists, go on to the
\* increment, otherwise return.
SetStore(p) ==
    /\ smPc[p] = "store"
    /\ m' = [m EXCEPT ![smKey[p]] = smVal[p]]
    /\ smPc' = [smPc EXCEPT ![p] = IF smExists[p] THEN "idle" ELSE "add"]
    /\ UNCHANGED <<size, smKey, smVal, smExists, smCalls, smLast, nAbsent, nLoaded, nDel>>
    /\ MapFrame

\* Set, line 268: atomic.AddInt64(&sm.size, 1)
SetAdd(p) ==
    /\ smPc[p] = "add"
    /\ size' = size + 1
    /\ smPc' = [smPc EXCEPT ![p] = "idle"]
    /\ UNCHANGED <<m, smKey, smVal, smExists, smCalls, smLast, nAbsent, nLoaded, nDel>>
    /\ MapFrame

\* A Delete that goes on to the decrement whether or not the key was there.
DeleteLoad_AlwaysSub(p, k) ==
    /\ smPc[p] = "idle"
    /\ smCalls < MapCalls
    /\ smCalls' = smCalls + 1
    /\ smKey' = [smKey EXCEPT ![p] = k]
    /\ m' = [m EXCEPT ![k] = Absent]
    /\ smPc' = [smPc EXCEPT ![p] = "sub"]
    /\ smLast' = [smLast EXCEPT ![k] = Absent]
    /\ nLoaded' = IF m[k] # Absent THEN nLoaded + 1 ELSE nLoaded
    /\ nDel' = nDel + 1
    /\ UNCHANGED <<size, smVal, smExists, nAbsent>>
    /\ MapFrame

\* Delete, lines 279-280: _, loaded := sm.m.LoadAndDelete(key); if loaded,
\* go on to the decrement, otherwise return.
DeleteLoad(p, k) ==
    /\ smPc[p] = "idle"
    /\ smCalls < MapCalls
    /\ smCalls' = smCalls + 1
    /\ smKey' = [smKey EXCEPT ![p] = k]
    /\ m' = [m EXCEPT ![k] = Absent]
    /\ smPc' = [smPc EXCEPT ![p] = IF m[k] # Absent THEN "sub" ELSE "idle"]
    /\ smLast' = [smLast EXCEPT ![k] = Absent]
    /\ nLoaded' = IF m[k] # Absent THEN nLoaded + 1 ELSE nLoaded
    /\ nDel' = nDel + 1
    /\ UNCHANGED <<size, smVal, smExists, nAbsent>>
    /\ MapFrame

\* Delete, line 281: atomic.AddInt64(&sm.size, -1)
DeleteAdd(p) ==
    /\ smPc[p] = "sub"
    /\ size' = size - 1
    /\ smPc' = [smPc EXCEPT ![p] = "idle"]
    /\ UNCHANGED <<m, smKey, smVal, smExists, smCalls, smLast, nAbsent, nLoaded, nDel>>
    /\ MapFrame

\* func (sm *SafeMap) Get(key string) (interface{}, bool): sm.m.Load(key)
SafeMapGet(k) == <<m[k], m[k] # Absent>>

\* func (sm *SafeMap) Size() int64
Size == size

StoredKeys == {k \in Keys : m[k] # Absent}
MapIdle == \A p \in Mappers : smPc[p] = "idle"

\* Any interleaving of Set and Delete calls.
NextSafeMap ==
    \/ \E p \in Mappers : (\E k \in Keys : SetLoad(p, k)) \/ SetStore(p) \/ SetAdd(p)
    \/ \E p \in Mappers : (\E k \in Keys : DeleteLoad(p, k)) \/ DeleteAdd(p)

\* Sequential use: a call begins when no other is in progress.
SeqSet(p, k) == MapIdle /\ SetLoad(p, k)
SeqDelete(p, k) == MapIdle /\ DeleteLoad(p, k)

NextSafeMapSeq ==
    \/ \E p \in Mappers : (\E k \in Keys : SeqSet(p, k)) \/ SetStore(p) \/ SetAdd(p)
    \/ \E p \in Mappers : (\E k \in Keys : SeqDelete(p, k)) \/ DeleteAdd(p)

\* Keys are first set, one call after the other; then Delete calls race,
\* with no Set once a Delete has begun.
SetupSet(p, k) == nDel = 0 /\ SeqSet(p, k)
RaceDelete(p, k) == (\A q \in Mappers : smPc[q] \in {"idle", "sub"}) /\ DeleteLoad(p, k)

NextSafeMapDelete ==
    \/ \E p \in Mappers : (\E k \in Keys : SetupSet(p, k)) \/ SetStore(p) \/ SetAdd(p)
    \/ \E p \in Mappers : (\E k \in Keys : RaceDelete(p, k)) \/ DeleteAdd(p)

\* Concurrent goroutines that each Set a key of their own, and no Delete.
OwnSet(p) == p \in Keys /\ SetLoad(p, p)

NextSafeMapOwn ==
    \E p \in Mappers : OwnSet(p) \/ SetStore(p) \/ SetAdd(p)

(***************************************************************************)
(* Metrics: three counters, each written and read by its own atomic call.  *)
(***************************************************************************)
Zeros == <<0, 0, 0>>

\* The zero value &Metrics{}.
InitMetrics ==
    /\ requests = 0
    /\ errors = 0
    /\ totalBytes = 0
    /\ mtPc = [p \in Meters |-> "idle"]
    /\ snap = [p \in Meters |-> Zeros]
    /\ mtCalls = 0
    /\ recAfter = Zeros
    /\ recRaced = Zeros
    /\ nResets = 0

MetersIdle == \A p \in Meters : mtPc[p] = "idle"
\* A Reset call has made its first store and not yet its last.
Resetting == \E p \in Meters : mtPc[p] \in {"rstE", "rstB"}
Counted(rec, i, n) == [rec EXCEPT ![i] = @ + n]

\* func (m *Metrics) RecordRequest(): atomic.AddInt64(&m.requests, 1)
RecordRequest(p) ==
    /\ mtPc[p] = "idle"
    /\ mtCalls < MetricCalls
    /\ mtCalls' = mtCalls + 1
    /\ requests' = requests + 1
    /\ recAfter' = IF Resetting THEN recAfter ELSE Counted(recAfter, 1, 1)
    /\ recRaced' = IF Resetting THEN Counted(recRaced, 1, 1) ELSE recRaced
    /\ UNCHANGED <<errors, totalBytes, mtPc, snap, nResets>>
    /\ MetricFrame

\* A RecordError that adds to the request counter.
RecordError_Requests(p) ==
    /\ mtPc[p] = "idle"
    /\ mtCalls < MetricCalls
    /\ mtCalls' = mtCalls + 1
    /\ requests' = requests + 1
    /\ recAfter' = IF Resetting THEN recAfter ELSE Counted(recAfter, 2, 1)
    /\ recRaced' = IF Resetting THEN Counted(recRaced, 2, 1) ELSE recRaced
    /\ UNCHANGED <<errors, totalBytes, mtPc, snap, nResets>>
    /\ MetricFrame

\* func (m *Metrics) RecordError(): atomic.AddInt64(&m.errors, 1)
RecordError(p) ==
    /\ mtPc[p] = "idle"
    /\ mtCalls < MetricCalls
    /\ mtCalls' = mtCalls + 1
    /\ errors' = errors + 1
    /\ recAfter' = IF Resetting THEN recAfter ELSE Counted(recAfter, 2, 1)
    /\ recRaced' = IF Resetting THEN Counted(recRaced, 2, 1) ELSE recRaced
    /\ UNCHANGED <<requests, totalBytes, mtPc, snap, nResets>>
    /\ MetricFrame

\* A RecordBytes that stores its argument in place of adding it.
RecordBytes_Store(p, n) ==
    /\ mtPc[p] = "idle"
    /\ mtCalls < MetricCalls
    /\ mtCalls' = mtCalls + 1
    /\ totalBytes' = n
    /\ recAfter' = IF Resetting THEN recAfter ELSE Counted(recAfter, 3, n)
    /\ recRaced' = IF Resetting THEN Counted(recRaced, 3, n) ELSE recRaced
    /\ UNCHANGED <<requests, errors, mtPc, snap, nResets>>
    /\ MetricFrame

\* func (m *Metrics) RecordBytes(bytes int64):
\* atomic.AddInt64(&m.totalBytes, bytes)
RecordBytes(p, n) ==
    /\ mtPc[p] = "idle"
    /\ mtCalls < MetricCalls
    /\ mtCalls' = mtCalls + 1
    /\ totalBytes' = totalBytes + n
    /\ recAfter' = IF Resetting THEN recAfter ELSE Counted(recAfter, 3, n)
    /\ recRaced' = IF Resetting THEN Counted(recRaced, 3, n) ELSE recRaced
    /\ UNCHANGED <<requests, errors, mtPc, snap, nResets>>
    /\ MetricFrame

\* GetSnapshot, line 177: requests = atomic.LoadInt64(&m.requests)
SnapRequests(p) ==
    /\ mtPc[p] = "idle"
    /\ snap' = [snap EXCEPT ![p] = <<requests, 0, 0>>]
    /\ mtPc' = [mtPc EXCEPT ![p] = "snapE"]
    /\ UNCHANGED <<requests, errors, totalBytes, mtCalls, recAfter, recRaced, nResets>>
    /\ MetricFrame

\* GetSnapshot, line 178: errors = atomic.LoadInt64(&m.errors)
SnapErrors(p) ==
    /\ mtPc[p] = "snapE"
    /\ snap' = [snap EXCEPT ![p][2] = errors]
    /\ mtPc' = [mtPc EXCEPT ![p] = "snapB"]
    /\ UNCHANGED <<requests, errors, totalBytes, mtCalls, recAfter, recRaced, nResets>>
    /\ MetricFrame

\* GetSnapshot, lines 179-180: totalBytes = atomic.LoadInt64(&m.totalBytes);
\* return
SnapBytes(p) ==
    /\ mtPc[p] = "snapB"
    /\ snap' = [snap EXCEPT ![p][3] = totalBytes]
    /\ mtPc' = [mtPc EXCEPT ![p] = "idle"]
    /\ UNCHANGED <<requests, errors, totalBytes, mtCalls, recAfter, recRaced, nResets>>
    /\ MetricFrame

\* Reset, line 185: atomic.StoreInt64(&m.requests, 0)
ResetRequests(p) ==
    /\ mtPc[p] = "idle"
    /\ mtCalls < MetricCalls
    /\ mtCalls' = mtCalls + 1
    /\ requests' = 0
    /\ mtPc' = [mtPc EXCEPT ![p] = "rstE"]
    /\ recAfter' = Zeros
    /\ recRaced' = Zeros
    /\ nResets' = nResets + 1
    /\ UNCHANGED <<errors, totalBytes, snap>>
    /\ MetricFrame

\* A Reset that leaves the error counter as it is.
ResetErrors_Skip(p) ==
    /\ mtPc[p] = "rstE"
    /\ mtPc' = [mtPc EXCEPT ![p] = "rstB"]
    /\ UNCHANGED <<requests, errors, totalBytes, snap, mtCalls, recAfter, recRaced, nResets>>
    /\ MetricFrame

\* Reset, line 186: atomic.StoreInt64(&m.errors, 0)
ResetErrors(p) ==
    /\ mtPc[p] = "rstE"
    /\ errors' = 0
    /\ mtPc' = [mtPc EXCEPT ![p] = "rstB"]
    /\ UNCHANGED <<requests, totalBytes, snap, mtCalls, recAfter, recRaced, nResets>>
    /\ MetricFrame

\* Reset, line 187: atomic.StoreInt64(&m.totalBytes, 0)
ResetBytes(p) ==
    /\ mtPc[p] = "rstB"
    /\ totalBytes' = 0
    /\ mtPc' = [mtPc EXCEPT ![p] = "idle"]
    /\ UNCHANGED <<requests, errors, snap, mtCalls, recAfter, recRaced, nResets>>
    /\ MetricFrame

\* Any interleaving of the calls.
NextMetrics ==
    \/ \E p \in Meters : RecordRequest(p) \/ RecordError(p) \/ (\E n \in 1..MaxBytes : RecordBytes(p, n))
    \/ \E p \in Meters : SnapRequests(p) \/ SnapErrors(p) \/ SnapBytes(p)
    \/ \E p \in Meters : ResetRequests(p) \/ ResetErrors(p) \/ ResetBytes(p)

\* Sequential use: a call begins when no other is in progress.
SeqRecordRequest(p) == MetersIdle /\ RecordRequest(p)
SeqRecordError(p) == MetersIdle /\ RecordError(p)
SeqRecordBytes(p, n) == MetersIdle /\ RecordBytes(p, n)
SeqSnapshot(p) == MetersIdle /\ SnapRequests(p)
SeqReset(p) == MetersIdle /\ ResetRequests(p)

NextMetricsSeq ==
    \/ \E p \in Meters : SeqRecordRequest(p) \/ SeqRecordError(p) \/ (\E n \in 1..MaxBytes : SeqRecordBytes(p, n))
    \/ \E p \in Meters : SeqSnapshot(p) \/ SnapErrors(p) \/ SnapBytes(p)
    \/ \E p \in Meters : SeqReset(p) \/ ResetErrors(p) \/ ResetBytes(p)

\* Concurrent recording with no Reset, and snapshots taken once every
\* recording call has returned.
FinalSnapshot(p) == mtCalls = MetricCalls /\ SnapRequests(p)

NextMetricsRecord ==
    \/ \E p \in Meters : RecordRequest(p) \/ RecordError(p) \/ (\E n \in 1..MaxBytes : RecordBytes(p, n))
    \/ \E p \in Meters : FinalSnapshot(p) \/ SnapErrors(p) \/ SnapBytes(p)

\* A PairRequest that records nothing.
PairRequest_Skip(p) ==
    /\ mtPc[p] = "idle"
    /\ mtCalls + 1 < MetricCalls
    /\ mtCalls' = mtCalls + 1
    /\ mtPc' = [mtPc EXCEPT ![p] = "err"]
    /\ UNCHANGED <<requests, errors, totalBytes, snap, recAfter, recRaced, nResets>>
    /\ MetricFrame

\* A writer that calls RecordRequest and then RecordError.
PairRequest(p) ==
    /\ mtPc[p] = "idle"
    /\ mtCalls + 1 < MetricCalls
    /\ mtCalls' = mtCalls + 1
    /\ requests' = requests + 1
    /\ mtPc' = [mtPc EXCEPT ![p] = "err"]
    /\ recAfter' = Counted(recAfter, 1, 1)
    /\ UNCHANGED <<errors, totalBytes, snap, recRaced, nResets>>
    /\ MetricFrame

PairError(p) ==
    /\ mtPc[p] = "err"
    /\ mtCalls' = mtCalls + 1
    /\ errors' = errors + 1
    /\ mtPc' = [mtPc EXCEPT ![p] = "idle"]
    /\ recAfter' = Counted(recAfter, 2, 1)
    /\ UNCHANGED <<requests, totalBytes, snap, recRaced, nResets>>
    /\ MetricFrame

NextMetricsPair ==
    \/ \E p \in Meters : PairRequest(p) \/ PairError(p)
    \/ \E p \in Meters : SnapRequests(p) \/ SnapErrors(p) \/ SnapBytes(p)

\* One Reset, with recordings before it, after it, and at most one on each
\* counter while it is in progress.
OneReset(p) == nResets = 0 /\ ResetRequests(p)
RaceRecordRequest(p) == (Resetting => recRaced[1] = 0) /\ RecordRequest(p)
RaceRecordError(p) == (Resetting => recRaced[2] = 0) /\ RecordError(p)
RaceRecordBytes(p, n) == (Resetting => recRaced[3] = 0) /\ RecordBytes(p, n)

NextMetricsReset ==
    \/ \E p \in Meters : RaceRecordRequest(p) \/ RaceRecordError(p) \/ (\E n \in 1..MaxBytes : RaceRecordBytes(p, n))
    \/ \E p \in Meters : OneReset(p) \/ ResetErrors(p) \/ ResetBytes(p)

(***************************************************************************)
(* AtomicConfig: a Config held in an atomic.Value, whose Store and Load    *)
(* each act on the whole value in one step.                                *)
(***************************************************************************)
\* type Config struct, with the field values TestAtomicConfig uses.
ConnValues == {100, 200}
TimeoutValues == {5, 10}
Configs == [MaxConnections : ConnValues, Timeout : TimeoutValues, Debug : BOOLEAN]
\* The snapshot TestAtomicConfig constructs the instance with.
initial == [MaxConnections |-> 100, Timeout |-> 5, Debug |-> FALSE]
\* What Load returns from an atomic.Value nothing was stored in: nil.
NoConfig == [MaxConnections |-> 0, Timeout |-> 0, Debug |-> FALSE, Nil |-> TRUE]

\* An instance built without the Store of the initial snapshot.
InitConfig_Empty ==
    /\ config = NoConfig
    /\ cfArg = [p \in Configurers |-> NoConfig]
    /\ cfGot = [p \in Configurers |-> NoConfig]
    /\ cfStored = {}
    /\ cfCalls = 0
    /\ cfFault = FALSE
    /\ cfLog = <<>>
    /\ cfReads = [p \in Configurers |-> <<>>]

\* func NewAtomicConfig(initial Config): ac.config.Store(initial)
InitConfig ==
    /\ config = initial
    /\ cfArg = [p \in Configurers |-> NoConfig]
    /\ cfGot = [p \in Configurers |-> NoConfig]
    /\ cfStored = {}
    /\ cfCalls = 0
    /\ cfFault = FALSE
    /\ cfLog = <<>>
    /\ cfReads = [p \in Configurers |-> <<>>]

\* An Update that writes the fields one at a time, seen after its first write.
Update_Partial(p, cfg) ==
    /\ ~cfFault
    /\ cfCalls < ConfigCalls
    /\ cfCalls' = cfCalls + 1
    /\ config' = [config EXCEPT !.MaxConnections = cfg.MaxConnections]
    /\ cfStored' = cfStored \cup {cfg}
    /\ cfArg' = [cfArg EXCEPT ![p] = cfg]
    /\ cfLog' = Append(cfLog, cfg)
    /\ UNCHANGED <<cfGot, cfFault, cfReads>>
    /\ ConfigFrame

\* An Update that drops its argument.
Update_Dropped(p, cfg) ==
    /\ ~cfFault
    /\ cfCalls < ConfigCalls
    /\ cfCalls' = cfCalls + 1
    /\ cfStored' = cfStored \cup {cfg}
    /\ cfArg' = [cfArg EXCEPT ![p] = cfg]
    /\ cfLog' = Append(cfLog, cfg)
    /\ UNCHANGED <<config, cfGot, cfFault, cfReads>>
    /\ ConfigFrame

\* func (ac *AtomicConfig) Update(cfg Config): ac.config.Store(cfg)
Update(p, cfg) ==
    /\ ~cfFault
    /\ cfCalls < ConfigCalls
    /\ cfCalls' = cfCalls + 1
    /\ config' = cfg
    /\ cfStored' = cfStored \cup {cfg}
    /\ cfArg' = [cfArg EXCEPT ![p] = cfg]
    /\ cfLog' = Append(cfLog, cfg)
    /\ UNCHANGED <<cfGot, cfFault, cfReads>>
    /\ ConfigFrame

\* A Get served from a copy taken when the instance was built.
ConfigGet_Stale(p) ==
    /\ ~cfFault
    /\ cfCalls < ConfigCalls
    /\ cfCalls' = cfCalls + 1
    /\ cfGot' = [cfGot EXCEPT ![p] = initial]
    /\ cfReads' = [cfReads EXCEPT ![p] = Append(@, <<0, Len(cfLog)>>)]
    /\ cfArg' = [cfArg EXCEPT ![p] = NoConfig]
    /\ UNCHANGED <<config, cfStored, cfLog, cfFault>>
    /\ ConfigFrame

\* func (ac *AtomicConfig) Get() Config: ac.config.Load().(Config).  The
\* type assertion panics on the nil that Load returns from an empty Value.
ConfigGet(p) ==
    /\ ~cfFault
    /\ cfCalls < ConfigCalls
    /\ cfCalls' = cfCalls + 1
    /\ IF config = NoConfig
       THEN cfFault' = TRUE /\ UNCHANGED <<cfGot, cfReads>>
       ELSE /\ cfGot' = [cfGot EXCEPT ![p] = config]
            /\ cfReads' = [cfReads EXCEPT ![p] = Append(@, <<Len(cfLog), Len(cfLog)>>)]
            /\ UNCHANGED cfFault
    /\ cfArg' = [cfArg EXCEPT ![p] = NoConfig]
    /\ UNCHANGED <<config, cfStored, cfLog>>
    /\ ConfigFrame

\* The snapshot that the v-th Update to take effect stored; the 0-th is the
\* one the instance was built with.
Version(v) == IF v = 0 THEN initial ELSE cfLog[v]

\* Any interleaving of Update and Get calls.
NextConfig ==
    \E p \in Configurers : (\E cfg \in Configs : Update(p, cfg)) \/ ConfigGet(p)

\* No concurrent Update: Update is called only while no other goroutine is
\* between its own Update and the Get that follows it.
SoloUpdate(p, cfg) ==
    /\ \A q \in Configurers \ {p} : cfArg[q] = NoConfig
    /\ Update(p, cfg)

NextConfigSolo ==
    \E p \in Configurers : (\E cfg \in Configs : SoloUpdate(p, cfg)) \/ ConfigGet(p)

(***************************************************************************)
(* Specifications                                                          *)
(***************************************************************************)
Init ==
    /\ InitSpinLock /\ InitCounter /\ InitFlag /\ InitRefCounter /\ InitWorker
    /\ InitSafeMap /\ InitMetrics /\ InitConfig

Next ==
    \/ NextSpinLock \/ NextSpinRogue \/ NextTryLock \/ NextCounterCas \/ NextFlagAll \/ NextRefCounter \/ NextWorker
    \/ NextSafeMap \/ NextMetrics \/ NextConfig

Spec == Init /\ [][Next]_vars
SpecSpinLock == Init /\ [][NextSpinLock]_vars
SpecTryLock == Init /\ [][NextTryLock]_vars
SpecSpinRogue == Init /\ [][NextSpinRogue]_vars
\* The scheduler keeps running goroutines: a holder goes on through its
\* critical section to Unlock, and goroutines spinning in Lock keep
\* attempting their swap, so that one of them takes a lock that is free.
FairSpecSpinLock == SpecSpinLock /\ WF_vars(NextSpinLock)
SpecCounter == Init /\ [][NextCounter]_vars
SpecCounterRace == Init /\ [][NextCounterRace]_vars
SpecFlag == Init /\ [][NextFlag]_vars
SpecFlagMixed == Init /\ [][NextFlagMixed]_vars
SpecRefCounter == Init /\ [][NextRefCounter]_vars
SpecRelease == Init /\ [][NextRelease]_vars
SpecRefOwned == Init /\ [][NextRefOwned]_vars
SpecWorker == Init /\ [][NextWorker]_vars
SpecWorkerCycle == Init /\ [][NextWorkerCycle]_vars
SpecWorkerRun == Init /\ [][NextWorkerRun]_vars
SpecWorkerFill == Init /\ [][NextWorkerFill]_vars
SpecSafeMap == Init /\ [][NextSafeMap]_vars
SpecSafeMapSeq == Init /\ [][NextSafeMapSeq]_vars
SpecSafeMapOwn == Init /\ [][NextSafeMapOwn]_vars
SpecSafeMapDelete == Init /\ [][NextSafeMapDelete]_vars
SpecMetrics == Init /\ [][NextMetrics]_vars
SpecMetricsSeq == Init /\ [][NextMetricsSeq]_vars
SpecMetricsRecord == Init /\ [][NextMetricsRecord]_vars
SpecMetricsPair == Init /\ [][NextMetricsPair]_vars
SpecMetricsReset == Init /\ [][NextMetricsReset]_vars
SpecConfig == Init /\ [][NextConfig]_vars
SpecConfigSolo == Init /\ [][NextConfigSolo]_vars

\* The Go scheduler runs every runnable goroutine again: a call in progress
\* goes on to its next statement, and the run() goroutine takes a ready case
\* of its select and counts the item it took.
FairSpecWorkerRun ==
    /\ SpecWorkerRun
    /\ WF_vars(\E c \in Callers : StartSpawn(c) \/ SubmitSend(c))
    /\ WF_vars(RunSteps)

\* Goroutines in Toggle keep being scheduled.
SpecFlagRace == Init /\ [][NextFlagRace]_vars
FairSpecFlagRace == SpecFlagRace /\ WF_vars(NextFlagRace)

\* One life of a worker under the same scheduler: the run() goroutine takes
\* a ready case of its select whether or not the worker has been stopped.
FairSpecWorkerCycle ==
    /\ SpecWorkerCycle
    /\ WF_vars(\E c \in Callers : StartSpawn(c) \/ StopClose(c) \/ SubmitSend(c))
    /\ WF_vars(\E i \in TaskIds : RunReceive(i) \/ RunCount(i) \/ RunStop(i))

(***************************************************************************)
(* Properties                                                              *)
(***************************************************************************)

\* C1: under Lock / critical section / Unlock, at most one goroutine is in
\* its critical section at any instant, and once every goroutine has done
\* its Iterations rounds the plain counter equals NumLockers * Iterations.
C1_MutualExclusion ==
    /\ Cardinality({p \in Lockers : InCritical(p)}) <= 1
    /\ (\E p \in Lockers : InCritical(p)) => state = 1
    /\ LockersDone => shared = NumLockers * Iterations

\* All rounds of all goroutines done, the counter at its full total.
C1_Witness == LockersDone /\ shared = NumLockers * Iterations /\ state = 0

\* C2 as claimed: whenever all Acquire and Release calls have completed and
\* the count is 0, onZero has been invoked exactly once.
C2_ExactlyOnceAtZero ==
    (hasOnZero /\ HoldersIdle /\ refs = 0) => called = 1

\* C3: n Release calls on a count of n, no Acquire among them: at most one
\* caller gets 0 from its decrement, a caller about to invoke onZero sees
\* the count at 0, onZero is invoked only by that caller, and once all n
\* have run exactly one has got 0 and (having returned) invoked onZero once.
C3_OneZeroObserver ==
    /\ nZero <= 1
    /\ \A p \in InOnZero : refs = 0
    /\ called + Cardinality(InOnZero) = (IF hasOnZero THEN nZero ELSE 0)
    /\ nRel = 1 + nAcq => nZero = 1
    /\ nZero = 1 => refs = 0

\* Three concurrent releases of a count raised to 3, all returned.
C3_Witness ==
    /\ hasOnZero /\ nAcq = 2 /\ nRel = 3 /\ HoldersIdle
    /\ called = 1 /\ refs = 0
    /\ \A p \in Holders : rcCalls[p] >= 1

\* C4: Get() equals the completed Increments minus the completed
\* Decrements; N goroutines doing K Increments each give N * K.
C4_NetSum ==
    /\ Get = nInc - nDec
    /\ (CounterDone /\ nDec = 0) => Get = NumCounters * CounterCalls

\* Every goroutine has made all its calls, Increments and Decrements mixed.
C4_Witness == CounterDone /\ nInc >= 2 /\ nDec >= 2 /\ Get = nInc - nDec

\* C5: with no Toggle in flight, the flag is set iff the number of Toggle
\* calls made so far is odd.
C5_ToggleParity ==
    (\A p \in Togglers : tgPc[p] = "idle") => (IsSet <=> nToggle % 2 = 1)

\* An odd number of Toggles done, one of which had to retry its swap.
C5_Witness ==
    /\ \A p \in Togglers : tgPc[p] = "idle"
    /\ nToggle = 3 /\ IsSet
    /\ \A p \in Togglers : tgCalls[p] >= 1

\* C6: on a worker that is started and never stopped, ProcessedCount never
\* decreases and never exceeds the number S of items submitted to it, and
\* under fair scheduling it reaches every value up to S.
C6_ProcessedReachesSubmitted ==
    /\ [](ProcessedCount <= submitted)
    /\ [][processed' >= processed]_vars
    /\ \A n \in 1..MaxSubmits : (submitted >= n) ~> (ProcessedCount >= n)

\* Every Submit call found the worker running and every item is counted.
C6_Witness ==
    /\ submitted = MaxSubmits /\ ProcessedCount = MaxSubmits
    /\ workQueue = <<>> /\ Cardinality(LiveTasks) = 1

\* C7: concurrent Start calls on an idle worker spawn one run() goroutine:
\* one caller at most wins the swap, and once any Start call has been made
\* the worker is running with exactly one task spawned or about to be.
C7_OneSpawn ==
    /\ Len(tasks) + Cardinality(Spawning) <= 1
    /\ startCalls >= 1 => (IsRunning /\ Len(tasks) + Cardinality(Spawning) = 1)

\* Both callers have called Start and returned; one task runs.
C7_Witness ==
    /\ startCalls = MaxStarts /\ CallersIdle /\ Len(tasks) = 1 /\ IsRunning

\* C8: within one life of a worker, concurrent Stop calls close stopSignal
\* once: one caller at most wins the swap, no close hits a closed channel,
\* and a worker that ran and is idle again, with no close pending, has its
\* stopSignal closed; a Stop on a worker never started closes nothing.
C8_OneBroadcast ==
    /\ ~panicked
    /\ Cardinality(Closing) + (IF stopSignal = "closed" THEN 1 ELSE 0) <= 1
    /\ (startCalls >= 1 /\ ~IsRunning /\ Closing = {}) => stopSignal = "closed"
    /\ startCalls = 0 => (stopSignal = "open" /\ Closing = {})

\* The worker was started, both callers called Stop and returned.
C8_Witness ==
    /\ stopCalls = MaxStops /\ startCalls >= 1 /\ CallersIdle
    /\ stopSignal = "closed" /\ ~IsRunning /\ ~panicked

\* C9 as claimed: no Stop call faults, in any sequence of Start and Stop.
C9_StopNeverFaults == ~panicked

\* C10 as claimed: whenever the worker is Running and every Start call has
\* returned, a run() goroutine is alive to consume the queue.
C10_RunningHasLiveTask ==
    (IsRunning /\ Spawning = {}) => LiveTasks # {}

\* C11: within one life of a worker, once stopSignal is closed every run()
\* goroutine eventually returns; it returns only from its select, never
\* between taking an item and counting it; and once it has returned (and
\* no spawn is pending) ProcessedCount stays as it is and the items in the
\* queue stay there.
C11_TaskTerminatesAfterStop ==
    /\ (stopSignal = "closed") ~> (LiveTasks = {} /\ Spawning = {})
    /\ [][\A i \in Tasks : tasks[i] = "count" => tasks'[i] = "select" \/ tasks'[i] = "count"]_vars
    /\ [][\A i \in Tasks : tasks[i] = "count" /\ tasks'[i] = "select" => processed' = processed + 1]_vars
    /\ [][(stopSignal = "closed" /\ LiveTasks = {} /\ Spawning = {} /\ Tasks # {})
            => /\ processed' = processed
               /\ LiveTasks' = {}
               /\ Len(workQueue') >= Len(workQueue)
               /\ SubSeq(workQueue', 1, Len(workQueue)) = workQueue]_vars

\* The task has returned after counting one item; another is left queued.
C11_Witness ==
    /\ stopSignal = "closed" /\ Tasks # {} /\ LiveTasks = {} /\ Spawning = {}
    /\ ProcessedCount = 1 /\ Len(workQueue) = 1

\* C12: a Submit call made while running is 0 returns having changed
\* nothing: not the queue, not ProcessedCount, not running, and the caller
\* holds no item to send.
C12_IdleSubmitIsNoOp ==
    [][(submitCalls' = submitCalls + 1 /\ ~IsRunning)
        => UNCHANGED <<running, processed, workQueue, stopSignal, panicked,
                       tasks, wkPc, wkItem, submitted>>]_vars

\* Every Submit call so far found the worker idle, the last of them after a
\* Stop; nothing was queued or counted.
C12_Witness ==
    /\ submitCalls = MaxSubmits /\ submitted = 0 /\ CallersIdle
    /\ stopSignal = "closed" /\ ~IsRunning
    /\ workQueue = <<>> /\ ProcessedCount = 0

\* C13: the send of a Submit on a running worker can always be taken; on
\* a queue holding QueueCap items it leaves the queue (and everything but
\* the caller's position) as it is, otherwise it appends the item; the
\* queue never holds more than QueueCap items.
C13_SubmitNeverBlocks ==
    /\ [](Len(workQueue) <= QueueCap)
    /\ [](\A c \in Callers : wkPc[c] = "send" => ENABLED SubmitSend(c))
    /\ [][\A c \in Callers : (wkPc[c] = "send" /\ wkPc'[c] = "idle") =>
            IF Len(workQueue) = QueueCap
            THEN UNCHANGED <<workQueue, processed, running, panicked, tasks, submitted>>
            ELSE workQueue' = Append(workQueue, wkItem[c])]_vars

\* The queue is full and a Submit has returned with its item dropped: more
\* items were submitted than are queued, taken or counted.
C13_Witness ==
    /\ CallersIdle /\ IsRunning /\ Len(workQueue) = QueueCap
    /\ submitted > ProcessedCount + Len(workQueue)
                    + Cardinality({i \in Tasks : tasks[i] = "count"})

\* C14: under sequential use, between calls Size() is the number of keys
\* stored, and Get(k) returns the value of the last Set of k, or not found
\* when k was never set or was deleted since.
C14_SequentialSizeExact ==
    MapIdle =>
        /\ Size = Cardinality(StoredKeys)
        /\ \A k \in Keys : SafeMapGet(k) = <<smLast[k], smLast[k] # Absent>>

\* After Set(1, 1), Set(1, 2), Delete(1): the key is gone and Size() is 0.
C14_Witness ==
    /\ MapIdle /\ Size = 0 /\ ~SafeMapGet(1)[2]
    /\ nAbsent = 1 /\ nLoaded = 1 /\ smCalls = 3

\* C15: with no call in progress, size is the number of Set calls that
\* found their key absent minus the number of Delete calls that found
\* theirs present: every Set that saw the key absent has incremented.
C15_EachAbsentObserverIncrements ==
    MapIdle => Size = nAbsent - nLoaded

\* Two Sets of the same absent key have both returned, no Delete was made:
\* one entry stored, Size() 2.
C15_Witness ==
    /\ MapIdle /\ nLoaded = 0 /\ smLast = m
    /\ Cardinality(StoredKeys) = 1 /\ Size = 2 /\ smCalls = 2

\* C16: goroutines that each Set only a key of their own: with no call in
\* progress Size() is the number of keys stored, which is the number of
\* goroutines that have called Set; it is at most NumMappers, and positive
\* once a call has been made.
C16_OwnKeysSizeExact ==
    MapIdle =>
        /\ Size = Cardinality(StoredKeys)
        /\ StoredKeys = {k \in Keys : smLast[k] # Absent}
        /\ Size <= NumMappers
        /\ smCalls > 0 => Size > 0

\* Every goroutine has Set its own key, one of them more than once.
C16_Witness ==
    /\ MapIdle /\ smCalls > NumMappers
    /\ Size = NumMappers

\* C17: under sequential use, between calls the counters hold what was
\* recorded since creation or since the last Reset; GetSnapshot returns
\* those three counts; when Reset returns the three counters are 0; and a
\* Record call adds to its own counter only.
C17_SequentialSnapshotExact ==
    /\ [](MetersIdle => <<requests, errors, totalBytes>> = recAfter)
    /\ [][\A p \in Meters : (mtPc[p] = "snapB" /\ mtPc'[p] = "idle") => snap'[p] = recAfter]_vars
    /\ [][\A p \in Meters : (mtPc[p] = "rstB" /\ mtPc'[p] = "idle")
            => <<requests', errors', totalBytes'>> = Zeros /\ recAfter' = Zeros]_vars
    /\ [][/\ requests' > requests => requests' = requests + 1 /\ UNCHANGED <<errors, totalBytes>>
          /\ errors' > errors => errors' = errors + 1 /\ UNCHANGED <<requests, totalBytes>>
          /\ totalBytes' > totalBytes => UNCHANGED <<requests, errors>>]_vars

\* One goroutine's GetSnapshot returned (1, 1, 2) after three recordings,
\* then Reset ran, and the other's GetSnapshot returned (0, 0, 0).
C17_Witness ==
    /\ MetersIdle /\ mtCalls = 4 /\ nResets = 1
    /\ <<requests, errors, totalBytes>> = Zeros
    /\ \E p, q \in Meters : snap[p] = <<1, 1, 2>> /\ snap[q] = Zeros

\* C18: concurrent recording without Reset loses nothing: the counters
\* always hold the totals recorded, and a GetSnapshot taken after all the
\* recording calls have returned yields exactly those totals.
C18_NoRecordingLost ==
    /\ [](<<requests, errors, totalBytes>> = recAfter)
    /\ [][\A p \in Meters : (mtPc[p] = "snapB" /\ mtPc'[p] = "idle") => snap'[p] = recAfter]_vars

\* A final snapshot has returned totals in which every counter was written,
\* the byte counter more than once.
C18_Witness ==
    /\ MetersIdle /\ mtCalls = MetricCalls
    /\ \E p \in Meters : snap[p] = recAfter /\ snap[p][1] > 0 /\ snap[p][2] > 0 /\ snap[p][3] > MaxBytes

\* C19: with writers that call RecordRequest before RecordError the
\* counters never hold more errors than requests at any one time (so a
\* snapshot showing more errors than requests was never their state).
C19_ErrorsNeverExceedRequests ==
    errors <= requests

\* A GetSnapshot has returned more errors than requests.
C19_Witness ==
    \E p \in Meters : mtPc[p] = "idle" /\ snap[p][2] > snap[p][1]

C21_RoundTrip ==
    /\ [][\A p \in Configurers : (cfArg[p] # NoConfig /\ cfArg'[p] = NoConfig)
            => /\ cfGot'[p].MaxConnections = cfArg[p].MaxConnections
               /\ cfGot'[p].Timeout = cfArg[p].Timeout
               /\ cfGot'[p].Debug = cfArg[p].Debug
               /\ cfGot'[p] = cfArg[p]]_vars
    /\ [](cfStored = {} => \A p \in Configurers : cfGot[p] \in {NoConfig, initial})

\* A goroutine got the initial snapshot, then updated to a snapshot that
\* differs from it in every field and got that one back.
C21_Witness ==
    /\ cfCalls = 3
    /\ \E p \in Configurers :
        /\ cfArg[p] = NoConfig /\ cfGot[p] \in cfStored /\ cfGot[p] = config
        /\ cfGot[p].MaxConnections # initial.MaxConnections
        /\ cfGot[p].Timeout # initial.Timeout
        /\ cfGot[p].Debug # initial.Debug

\* C22: whatever the interleaving of Update and Get calls, the slot holds,
\* and every Get has returned, the initial snapshot or the whole argument of
\* some Update call.
C22_WholeSnapshots ==
    /\ config \in {initial} \cup cfStored
    /\ \A p \in Configurers : cfGot[p] # NoConfig => cfGot[p] \in {initial} \cup cfStored

\* Two Updates with different arguments were made by different goroutines,
\* and a Get then returned one of them.
C22_Witness ==
    /\ Cardinality(cfStored) = 2 /\ initial \notin cfStored
    /\ \E p \in Configurers : cfGot[p] \in cfStored /\ cfGot[p] = config
    /\ \E q \in Configurers : cfArg[q] \in cfStored /\ cfArg[q] # config

\* C23: the slot of an AtomicConfig built by NewAtomicConfig is never empty
\* and no Get panics.
C23_NeverEmpty ==
    config # NoConfig /\ ~cfFault

\* A Get made before any Update has returned the initial snapshot.
C23_Witness ==
    cfStored = {} /\ \E p \in Configurers : cfGot[p] = initial

\* C24 as stated: CompareAndSet returns true iff the value equals old at the
\* instant of the call, the value then becoming new, and otherwise leaves it
\* unchanged; and among racing calls with the same old and different new
\* values at most one returns true.
C24_AtMostOneTrue ==
    /\ [][\A p \in CounterProcs : acCas'[p] # acCas[p] =>
            /\ acOk'[p] <=> (value = acOld'[p])
            /\ value' = IF acOk'[p] THEN acNew'[p] ELSE value]_vars
    /\ [](nCasOk <= 1)

\* C24 amended: the same, with at most one true among the racing calls whose
\* new differs from old (a call whose new equals old succeeds without
\* changing the value, so others can still succeed).
C24_AtMostOneChange ==
    /\ [][\A p \in CounterProcs : acCas'[p] # acCas[p] =>
            /\ acOk'[p] <=> (value = acOld'[p])
            /\ value' = IF acOk'[p] THEN acNew'[p] ELSE value]_vars
    /\ [](Cardinality({p \in Racers : acOk[p] /\ acNew[p] # acOld[p]}) <= 1)

\* Every goroutine has raced on an old that was the value, set up to be
\* nonzero: a call with new equal to old and one changing call returned
\* true, a later one false, and the changing call's new stays.
C24_Witness ==
    /\ Racers = CounterProcs /\ nCasOk = 2 /\ nInc = 1
    /\ \E p, q \in CounterProcs :
        /\ acOk[p] /\ acNew[p] # acOld[p] /\ value = acNew[p]
        /\ acOk[q] /\ acNew[q] = acOld[q]
        /\ \A r \in CounterProcs \ {p, q} : ~acOk[r]

\* C25: the step on which a Toggle call returns is its own successful swap:
\* it flips the flag, the call returns the state it installed (what IsSet
\* then reports), and successive Toggle calls return alternating values,
\* true for the first.
C25_ToggleReturnsInstalled ==
    [][\A p \in Togglers : (tgPc[p] = "cas" /\ tgPc'[p] = "idle") =>
        /\ flag' = 1 - flag
        /\ tgRet'[p] <=> IsSet'
        /\ tgRet'[p] <=> (nToggle' % 2 = 1)]_vars

\* Two goroutines have each toggled once, one got true and the other false,
\* the flag is clear again, and a third is about to retry a failed swap.
C25_Witness ==
    /\ nToggle = 2 /\ ~IsSet
    /\ \E p, q \in Togglers :
        /\ tgPc[p] = "idle" /\ tgCalls[p] = 1 /\ tgRet[p]
        /\ tgPc[q] = "load" /\ tgCalls[q] = 1 /\ ~tgRet[q]
    /\ \E r \in Togglers : tgPc[r] = "idle" /\ tgCalls[r] = 1 /\ ~tgRet[r]

\* C26: whatever the interleaving of Set, Clear and Toggle calls, the flag
\* holds 0 or 1, and so does every value a Toggle has loaded from it.
C26_FlagIsZeroOrOne ==
    /\ flag \in {0, 1}
    /\ \A p \in Togglers : tgOld[p] \in {0, 1}

\* A Toggle that loaded 0 is about to retry: its swap failed against a Set
\* made in between, no Toggle having completed.
C26_Witness ==
    /\ nToggle = 0 /\ flag = 1
    /\ \E p \in Togglers : tgPc[p] = "load" /\ tgOld[p] = 0

C28_ReleasePastZeroGuarded ==
    [][(refs = 0 /\ nRel' = nRel + 1) => refs' = 0 /\ Count' >= 0]_vars

\* C29: a TryLock call is one attempt: it returns true iff the lock was
\* free at that instant; either way the lock is held afterwards, by the
\* caller if it got true and by the same holder as before if it got false
\* (the caller does not wait); so of the calls made on a free lock exactly
\* one returns true.
C29_TryLockSingleAttempt ==
    [][\A p \in Lockers : slTries'[p] # slTries[p] =>
        /\ slOk'[p] <=> (state = 0)
        /\ state' = 1
        /\ slOk'[p] => {q \in Lockers : InCritical(q)'} = {p}
        /\ ~slOk'[p] => /\ slPc'[p] = "idle"
                         /\ {q \in Lockers : InCritical(q)'} = {q \in Lockers : InCritical(q)}
                         /\ Cardinality({q \in Lockers : InCritical(q)}) = 1]_vars

\* Every goroutine has called TryLock on the free lock, none has unlocked:
\* one got true and holds the lock, the others got false.
C29_Witness ==
    /\ \A p \in Lockers : slTries[p] = 1 /\ slIter[p] = 0
    /\ Cardinality({p \in Lockers : slOk[p]}) = 1
    /\ \E p \in Lockers : slOk[p] /\ InCritical(p)
    /\ state = 1

\* C30: Lock returns only on a step where its own swap took the lock from
\* free to held; and under fair scheduling, whenever goroutines are
\* spinning in Lock one of them eventually holds the lock (the lock has no
\* queue: which of them is not determined).
C30_LockDeadlockFree ==
    /\ [][\A p \in Lockers : (Spinning(p) /\ InCritical(p)') =>
            state = 0 /\ state' = 1 /\ \A q \in Lockers \ {p} : ~InCritical(q)']_vars
    /\ [][\A p \in Lockers : (Spinning(p) /\ state = 1) => ~InCritical(p)']_vars
    /\ (\E p \in Lockers : Spinning(p)) ~> (\E p \in Lockers : InCritical(p))

\* No FIFO order: one goroutine has acquired the lock Iterations times while
\* another, in Lock since the start, has not acquired it once and still
\* spins on a lock that a third holds.
C30_Witness ==
    \E p, q, r \in Lockers :
        /\ Spinning(p) /\ slIter[p] = 0
        /\ slIter[q] = Iterations
        /\ InCritical(r) /\ state = 1


\* C31: Unlock has no ownership check.  Every Unlock, by the holder or by a
\* goroutine that does not hold the lock, stores 0 in state (so that a
\* spinning Lock can then succeed while the holder is still in its critical
\* section, the state C31_Witness describes); and two goroutines are in
\* their critical sections together only if some Unlock was issued by a
\* non-holder.
C31_UnlockUnchecked ==
    /\ [][(slRogue' # slRogue \/ \E p \in Lockers : slPc[p] = "unlock" /\ slPc'[p] = "idle")
            => state' = 0]_vars
    /\ [](Cardinality({p \in Lockers : InCritical(p)}) > 1 => slRogue > 0)

\* A holder is still in its critical section, an Unlock by a non-holder has
\* freed the lock, and a second goroutine has acquired it.
C31_Witness ==
    /\ slRogue > 0
    /\ state = 1
    /\ Cardinality({p \in Lockers : InCritical(p)}) = 2


\* C32: no item is added to the queue while running is 0: once a Stop has
\* taken effect and returned, and until the next Start, no step makes the
\* queue longer.
C32_NoSendWhileIdle ==
    [][(running = 0 /\ stopSignal = "closed" /\ Closing = {})
            => Len(workQueue') <= Len(workQueue)]_vars


\* C33: Worker accounting.  In every reachable state the queue holds at most
\* QueueCap items, and the items accepted by Submit are those counted in
\* processed, those in the queue and at most one item that run() has taken
\* from the queue and not yet counted; so processed never exceeds the items
\* accepted.
C33_Accounting ==
    /\ Len(workQueue) <= QueueCap
    /\ \E taken \in 0..1 : accepted = ProcessedCount + Len(workQueue) + taken
    /\ ProcessedCount <= accepted


\* C34: at most one run() goroutine of a Worker is alive at any instant, in
\* every interleaving of Start and Stop calls.
C34_OneLiveTask == Cardinality(LiveTasks) <= 1


\* C35: a Delete of an absent key changes neither the store nor size, and
\* returns without going on to the decrement; and when Delete calls race on
\* keys that were set before and that no Set touches meanwhile, one Delete
\* exactly per key removed finds it present and decrements: the Delete
\* calls that found their key are as many as the keys removed, and size is
\* the number of keys stored plus the decrements still to come.
C35_DeleteOncePerKey ==
    /\ [][(nDel' # nDel /\ nLoaded' = nLoaded)
            => (m' = m /\ size' = size /\ smPc' = smPc)]_vars
    /\ [](nDel > 0 =>
            /\ nLoaded = nAbsent - Cardinality(StoredKeys)
            /\ Size = Cardinality(StoredKeys)
                        + Cardinality({p \in Mappers : smPc[p] = "sub"}))

\* Key 1 was set, then both goroutines called Delete(1) and have returned:
\* one of them found the key, and Size() is 0.
C35_Witness ==
    /\ MapIdle /\ nDel = 2 /\ smKey = [p \in Mappers |-> 1]
    /\ nAbsent = 1 /\ nLoaded = 1
    /\ Size = 0 /\ StoredKeys = {}


\* C36: Size() never returns a negative value: in every reachable state of
\* every interleaving of Set and Delete calls, size >= 0.
C36_SizeNonNegative == Size >= 0

\* C36, as it holds: size is the increments made by Set calls (those that
\* found their key absent, less the ones whose increment is still to come)
\* minus the decrements made by Delete calls (those that found their key
\* present, less the ones whose decrement is still to come); it is never
\* below minus the number of Delete calls that found their key present.
C36_SizeIsAddsMinusSubs ==
    LET toAdd == {p \in Mappers : smPc[p] \in {"store", "add"} /\ ~smExists[p]}
        toSub == {p \in Mappers : smPc[p] = "sub"}
    IN  /\ Size = (nAbsent - Cardinality(toAdd)) - (nLoaded - Cardinality(toSub))
        /\ Size >= -nLoaded

\* A Set has stored its key and not yet incremented, a Delete of the key
\* has returned: Size() is -1.
C36_Witness ==
    /\ Size = -1
    /\ \E p \in Mappers : smPc[p] = "add"
    /\ nLoaded = 1 /\ StoredKeys = {}

\* C37: size only over-counts: once all calls have completed, Size() is at
\* least the number of keys present in the store.
C37_OnlyOverCounts == MapIdle => Size >= Cardinality(StoredKeys)

\* C37, as it holds: once all calls have completed, Size() falls short of
\* the number of keys present by at most the number of Delete calls that
\* found their key present; as long as no Delete has removed a key, it only
\* over-counts.
C37_UnderCountsByDeletes ==
    MapIdle => Size >= Cardinality(StoredKeys) - nLoaded

\* All calls have completed, a key is stored and Size() is 0: a Set that
\* found the key present stored it again after a Delete had removed it.
C37_Witness ==
    /\ MapIdle /\ Size = 0 /\ nLoaded = 1
    /\ Cardinality(StoredKeys) = 1


\* C38: reads of an AtomicConfig are linearizable against updates.  Every
\* Get returns the snapshot of one point in the order in which the Updates
\* took effect, a point not earlier than the last Update that had returned
\* when the Get began; and the points of one goroutine's successive Gets
\* never go back.
C38_Linearizable ==
    \A p \in Configurers :
        LET reads == cfReads[p] IN
        /\ \A i \in 1..Len(reads) :
            /\ reads[i][1] \in 0..Len(cfLog)
            /\ reads[i][1] >= reads[i][2]
            /\ i > 1 => reads[i][1] >= reads[i - 1][1]
        /\ reads # <<>> => cfGot[p] = Version(reads[Len(reads)][1])

\* A goroutine's Get returned the initial snapshot; another goroutine's
\* Update then returned, and the first goroutine's next Get returned its
\* argument.
C38_Witness ==
    \E p \in Configurers :
        /\ cfReads[p] = <<(<<0, 0>>), (<<1, 1>>)>>
        /\ cfGot[p] = cfLog[1] /\ cfGot[p] # initial
        /\ cfArg[p] = NoConfig
        /\ \E q \in Configurers \ {p} : cfArg[q] = cfLog[1]


\* C39: Increment and Decrement return the value their own atomic add
\* produced: the value before the call plus or minus 1, which is what Get
\* returns right after; and as long as only Increment calls are made on a
\* counter that started at 0, the n-th call to take effect returns n, so
\* that N concurrent calls return N distinct values, exactly 1..N.
C39_ReturnsOwnAdd ==
    /\ [][\A p \in CounterProcs : acCalls'[p] # acCalls[p] =>
            /\ nInc' # nInc => acRet'[p] = value + 1
            /\ nDec' # nDec => acRet'[p] = value - 1
            /\ Get' = acRet'[p]
            /\ (nDec' = 0) => acRet'[p] = nInc']_vars
    /\ []((nDec = 0 /\ \A p \in CounterProcs : acCalls[p] = 1)
            => {acRet[p] : p \in CounterProcs} = 1..NumCounters)

\* Every goroutine has made one Increment, no Decrement was made, and the
\* last goroutine to be served was not the last of the set.
C39_Witness ==
    /\ nDec = 0 /\ \A p \in CounterProcs : acCalls[p] = 1
    /\ Cardinality({acRet[p] : p \in CounterProcs}) = NumCounters
    /\ acRet[1] = NumCounters /\ Get = NumCounters


\* C40: Toggle's retry loop is lock-free.  A swap fails only when the flag
\* was changed between the caller's load and its swap, that is when some
\* other Toggle completed in between: of the goroutines retrying, one at
\* least completes in each round.  The Toggle calls being finitely many,
\* every one of them terminates.
C40_ToggleLockFree ==
    /\ [][\A p \in Togglers : (tgPc[p] = "cas" /\ tgPc'[p] = "load")
            => (flag # tgOld[p] /\ tgStale[p])]_vars
    /\ [][\A p \in Togglers : (tgPc[p] = "cas" /\ tgPc'[p] = "idle")
            => (flag = tgOld[p] /\ nToggle' = nToggle + 1)]_vars
    /\ <>[](\A p \in Togglers : ToggleReturned(p))

\* A goroutine is back at its load after a failed swap while another
\* goroutine's Toggle, begun after it, has completed.
C40_Witness ==
    \E p, q \in Togglers :
        /\ tgPc[p] = "load" /\ tgCalls[p] = 1
        /\ tgPc[q] = "idle" /\ tgCalls[q] = 1
        /\ nToggle = 1 /\ flag # tgOld[p]

=============================================================================
